---- MODULE Spec2Model ----
(***************************************************************************)
(* Partnership ledger backend: the persistence layer (lib/googleSheets.ts) *)
(* and the HTTP handlers that drive it (src/server.ts).                    *)
(*                                                                         *)
(* The sheet is the only durable state.  Every mutation request loads the  *)
(* whole sheet, mutates the snapshot in memory and writes the whole sheet  *)
(* back with three remote calls: clear, header update, data update.  The   *)
(* handlers are async functions: they interleave at their awaits, that is  *)
(* at the remote calls.  One action below is one remote call taking effect *)
(* together with the synchronous code that follows it up to the next       *)
(* remote call (or up to the response).                                    *)
(*                                                                         *)
(* A transaction is modelled by its id, its deleted flag, its amount, its   *)
(* four time stamps and one client text field, val, which stands for       *)
(* date/type/partner/description.  An amount is an integer number of       *)
(* hundredths; an instant is an integer number of milliseconds.            *)
(***************************************************************************)
EXTENDS Integers, Sequences, FiniteSets, TLC

\* ---------------------------------------------------------------- bounds
MaxId    == 2      \* create is explored while nextId <= MaxId
MaxRows  == 2      \* create is explored while the snapshot has < MaxRows rows
MaxTime  == 2      \* the clock is explored up to this instant

Procs == {"w1", "w2"}   \* two requests can be in flight together
Vals  == {"a"}          \* values a client supplies for the field val
Ids   == 1..MaxId       \* ids a client names in a path or supplies in a body
Times == 1..MaxTime     \* the instants the clock shows

VARIABLES
  env,      \* the three required configuration values: present or not
  header,   \* row 1 of the sheet holds the header row
  store,    \* rows 2.. of the sheet (range Sheet1!A2:K), raw cells
  pc,       \* per request slot: "idle", or the remote call saveDataToSheets awaits
  req,      \* per slot: the request being (or last) handled
  loaded,   \* per slot: the snapshot loadDataFromSheets returned to the handler
  data,     \* per slot: the handler's snapshot `data`, after its mutation
  resp,     \* per slot: the response sent for the request, NoResp while in flight
  calls,    \* per slot: the remote calls the request has issued, with their outcome
  assigned, \* history: ids given out by creates that answered 201
  removed,  \* history: ids whose soft-delete answered 200
  before,   \* history, per slot: the sheet when the request started
  raced,    \* history, per slot: the request and the other one both loaded
            \* before either save made its first remote call
  lastSaved, \* history: the slot whose save returned true most recently
  now,      \* the clock: what new Date() and Date.now() answer
  codec     \* the row codec applied on its own: a row, a position, the results

vars == <<env, header, store, pc, req, loaded, data, resp, calls,
          assigned, removed, before, raced, lastSaved, now, codec>>

\* ------------------------------------------------------- sequence helpers
RECURSIVE SeqMax(_)
\* Math.max(...ids, 0)
SeqMax(s) == IF s = <<>> THEN 0
             ELSE LET m == SeqMax(Tail(s)) IN IF Head(s) > m THEN Head(s) ELSE m

IdsOf(ts) == [i \in 1..Len(ts) |-> ts[i].id]

\* find that falls back on the first transaction
FindIndex_OrFirst(ts, id) ==
  IF \E i \in 1..Len(ts) : ts[i].id = id
  THEN CHOOSE i \in 1..Len(ts) : ts[i].id = id /\ \A j \in 1..(i-1) : ts[j].id # id
  ELSE IF Len(ts) > 0 THEN 1 ELSE 0

\* Array.prototype.find by id: position of the first match, 0 when there is none
FindIndex(ts, id) ==
  IF \E i \in 1..Len(ts) : ts[i].id = id
  THEN CHOOSE i \in 1..Len(ts) : ts[i].id = id /\ \A j \in 1..(i-1) : ts[j].id # id
  ELSE 0

Distinct(s) == \A i, j \in 1..Len(s) : i # j => s[i] # s[j]

\* ------------------------------------------------- numbers and their text
\* A cell read from the sheet is text.  The text of a cell that the code
\* parses as a number is a sequence of characters; the text of the other cells
\* is a string.
DigitChars == <<"0", "1", "2", "3", "4", "5", "6", "7", "8", "9">>

IsDigit(c) == \E d \in 0..9 : DigitChars[d + 1] = c

DigitValue(c) == CHOOSE d \in 0..9 : DigitChars[d + 1] = c

RECURSIVE Digits(_)
\* String(n) for an integer n >= 0
Digits(n) ==
  IF n < 10 THEN <<DigitChars[n + 1]>>
  ELSE Digits(n \div 10) \o <<DigitChars[(n % 10) + 1]>>

\* String(x) for a number x >= 0 of h hundredths: no trailing zero, no point
\* without a fraction
NumberText(h) ==
  LET f == h % 100 IN
  Digits(h \div 100) \o
    (IF f = 0 THEN <<>>
     ELSE IF f % 10 = 0 THEN <<".", DigitChars[(f \div 10) + 1]>>
     ELSE <<".", DigitChars[(f \div 10) + 1], DigitChars[(f % 10) + 1]>>)

RECURSIVE TrimStart(_)
\* parseInt and parseFloat skip leading white space
TrimStart(s) == IF s # <<>> /\ Head(s) = " " THEN TrimStart(Tail(s)) ELSE s

RECURSIVE DigitPrefix(_)
\* the longest prefix of s made of digits
DigitPrefix(s) ==
  IF s # <<>> /\ IsDigit(Head(s)) THEN <<Head(s)>> \o DigitPrefix(Tail(s)) ELSE <<>>

RECURSIVE ValueOf(_)
\* the integer a sequence of digits denotes
ValueOf(ds) ==
  IF ds = <<>> THEN 0
  ELSE ValueOf(SubSeq(ds, 1, Len(ds) - 1)) * 10 + DigitValue(ds[Len(ds)])

\* A cell that holds no number (absent or empty), and the NaN that parseInt and
\* parseFloat answer for a text that does not start with a number
NoNumber == -1

\* parseInt(s) for an unsigned text: the digits s starts with, whatever follows
parseInt(s) ==
  LET ds == DigitPrefix(TrimStart(s)) IN
  IF ds = <<>> THEN NoNumber ELSE ValueOf(ds)

\* parseFloat(s) for an unsigned text without exponent, in hundredths: the
\* digits s starts with and the fraction that follows them, if any
parseFloat(s) ==
  LET t    == TrimStart(s)
      ip   == DigitPrefix(t)
      rest == SubSeq(t, Len(ip) + 1, Len(t))
      fp   == IF rest # <<>> /\ Head(rest) = "." THEN DigitPrefix(Tail(rest)) ELSE <<>>
      f2   == SubSeq(fp \o <<"0", "0">>, 1, 2)
  IN IF ip = <<>> /\ fp = <<>> THEN NoNumber ELSE ValueOf(ip) * 100 + ValueOf(f2)

\* new Date(t).toISOString()
toISOString(t) == "T" \o ToString(t)

\* ------------------------------------------------------------ the remote
\* the text of a number cell: empty when the cell holds nothing
IntegerCell(n) == IF n = NoNumber THEN <<>> ELSE Digits(n)

\* values.get renders the raw cells (FORMATTED_VALUE): a boolean reads back as
\* the string TRUE or FALSE, a number as its digits.
FormattedRow(r) ==
  [id               |-> IntegerCell(r.id),
   val              |-> r.val,
   amount           |-> IF r.amount = NoNumber THEN <<>> ELSE NumberText(r.amount),
   deleted          |-> IF r.deleted THEN "TRUE" ELSE "FALSE",
   createdAt        |-> r.createdAt,
   updatedAt        |-> r.updatedAt,
   createdTimestamp |-> IntegerCell(r.createdTimestamp),
   updatedTimestamp |-> IntegerCell(r.updatedTimestamp)]

ReadRange(rows) == [i \in 1..Len(rows) |-> FormattedRow(rows[i])]

\* values.update on Sheet1!A2:K writes the given rows from row 2 on and leaves
\* the rows below them as they are
WriteRange(rows, values) ==
  [i \in 1..(IF Len(values) > Len(rows) THEN Len(values) ELSE Len(rows)) |->
     IF i <= Len(values) THEN values[i] ELSE rows[i]]

\* ------------------------------------------------------------- row codec
\* a cell the row does not have reads as undefined, which the code treats as
\* it treats the empty text
TextCell(row, k) == IF k \in DOMAIN row THEN row[k] ELSE ""

NumberCell(row, k) == IF k \in DOMAIN row THEN row[k] ELSE <<>>

\* x || fallback for a number x: NaN and 0 are falsy
OrElse(x, fallback) == IF x = NoNumber \/ x = 0 THEN fallback ELSE x

rowToTransaction(row, index) ==
  [id      |-> IF NumberCell(row, "id") = <<>> THEN index + 1
               ELSE IF parseInt(NumberCell(row, "id")) = NoNumber THEN index + 1
               ELSE parseInt(NumberCell(row, "id")),
   val     |-> TextCell(row, "val"),
   amount  |-> OrElse(parseFloat(NumberCell(row, "amount")), 0),
   deleted |-> TextCell(row, "deleted") = "TRUE",
   createdAt |-> IF TextCell(row, "createdAt") = "" THEN toISOString(now)
                 ELSE TextCell(row, "createdAt"),
   updatedAt |-> IF TextCell(row, "updatedAt") = "" THEN toISOString(now)
                 ELSE TextCell(row, "updatedAt"),
   createdTimestamp |-> OrElse(parseInt(NumberCell(row, "createdTimestamp")), now),
   updatedTimestamp |-> OrElse(parseInt(NumberCell(row, "updatedTimestamp")), now)]

\* a transaction built by create from a body without val or amount has no
\* such key: the cell is written empty
transactionToRow(t) ==
  [id               |-> t.id,
   val              |-> IF "val" \in DOMAIN t THEN t.val ELSE "",
   amount           |-> IF "amount" \in DOMAIN t THEN t.amount ELSE NoNumber,
   deleted          |-> t.deleted,
   createdAt        |-> t.createdAt,
   updatedAt        |-> t.updatedAt,
   createdTimestamp |-> t.createdTimestamp,
   updatedTimestamp |-> t.updatedTimestamp]

\* ---------------------------------------------------------- availability
validateCredentials(e) == e.sheetId /\ e.clientEmail /\ e.privateKey

EmptySnapshot == [transactions |-> <<>>, nextId |-> 1, version |-> "1.0"]

Returned(v) == [threw |-> FALSE, value |-> v]
Thrown      == [threw |-> TRUE,  value |-> EmptySnapshot]

\* ---------------------------------------------------------------- loader
\* a loader that forgets to filter the soft-deleted transactions out
SnapshotOf_Unfiltered(rows) ==
  LET transactions == [i \in 1..Len(rows) |-> rowToTransaction(rows[i], i - 1)]
  IN [transactions |-> transactions,
      nextId       |-> SeqMax(IdsOf(transactions)) + 1,
      version      |-> "1.0"]

\* a loader whose filter keeps the soft-deleted transactions instead
SnapshotOf_Inverted(rows) ==
  LET transactions == [i \in 1..Len(rows) |-> rowToTransaction(rows[i], i - 1)]
  IN [transactions |-> SelectSeq(transactions, LAMBDA t : t.deleted),
      nextId       |-> SeqMax(IdsOf(transactions)) + 1,
      version      |-> "1.0"]

\* a loader that computes nextId over the transactions it returns
SnapshotOf_MaxOfLive(rows) ==
  LET transactions == [i \in 1..Len(rows) |-> rowToTransaction(rows[i], i - 1)]
      live == SelectSeq(transactions, LAMBDA t : ~t.deleted)
  IN [transactions |-> live,
      nextId       |-> SeqMax(IdsOf(live)) + 1,
      version      |-> "1.0"]

\* The snapshot computed from the rows a successful read returned
SnapshotOf(rows) ==
  LET transactions == [i \in 1..Len(rows) |-> rowToTransaction(rows[i], i - 1)]
  IN [transactions |-> SelectSeq(transactions, LAMBDA t : ~t.deleted),
      nextId       |-> SeqMax(IdsOf(transactions)) + 1,
      version      |-> "1.0"]

\* a loader that lets the failure of the read propagate
loadDataFromSheets_Rethrow(e, ok, rows) ==
  IF ~validateCredentials(e) THEN Returned(EmptySnapshot)
  ELSE IF ~ok THEN Thrown
  ELSE Returned(SnapshotOf(rows))

\* loadDataFromSheets: e the configuration, ok whether the remote read
\* succeeded, rows what it returned.  Every failure is caught and answered
\* with the empty snapshot.
loadDataFromSheets(e, ok, rows) ==
  IF ~validateCredentials(e) THEN Returned(EmptySnapshot)
  ELSE IF ~ok THEN Returned(EmptySnapshot)
  ELSE Returned(SnapshotOf(rows))

\* -------------------------------------------------------------- requests
\* A JSON body is a record holding the fields the client supplied
EmptyBody == [x \in {} |-> 0]

Bodies ==
  {EmptyBody, [deleted |-> TRUE]}
    \cup {[val |-> v] : v \in Vals}
    \cup {[id |-> i] : i \in Ids}

NoReq == [kind |-> "none", id |-> 0, body |-> EmptyBody]

Request(kind, id, body) == [kind |-> kind, id |-> id, body |-> body]

\* responses of the handlers
NoResp        == [status |-> 0,   error |-> ""]
Ok            == [status |-> 200, error |-> ""]
Created       == [status |-> 201, error |-> ""]
NotFound      == [status |-> 404, error |-> "Transaction not found"]
PersistFailed == [status |-> 500, error |-> "Failed to persist"]
HandlerFailed == [status |-> 500, error |-> "Failed to handle"]

SuccessOf(kind) == IF kind = "post" THEN Created ELSE Ok

Call(op, ok) == [op |-> op, ok |-> ok]

\* the remote calls a load issues: none when the store is unavailable
LoadCalls(e, ok) == IF validateCredentials(e) THEN <<Call("get", ok)>> ELSE <<>>

\* --------------------------------------------------------------- mutation
\* Object.assign(transaction, req.body)
Assign(t, body) ==
  [k \in DOMAIN t \cup DOMAIN body |-> IF k \in DOMAIN body THEN body[k] ELSE t[k]]

\* updatedAt: now.toISOString(), updatedTimestamp: now.getTime()
Restamp(t) ==
  [updatedAt |-> toISOString(t), updatedTimestamp |-> t]

\* the four stamps a create sets
Stamps(t) ==
  [createdAt |-> toISOString(t), updatedAt |-> toISOString(t),
   createdTimestamp |-> t, updatedTimestamp |-> t]

\* the spread written last: { id: data.nextId++, deleted: false, ...req.body }
NewTransaction_BodyLast(body, nextId) ==
  Assign(Assign([id |-> nextId, deleted |-> FALSE], Stamps(now)), body)

\* { ...req.body, id: data.nextId++, deleted: false, createdAt: ..., ... }
NewTransaction(body, nextId) ==
  Assign(Assign(body, [id |-> nextId, deleted |-> FALSE]), Stamps(now))

\* the snapshot a create passes to save
PostMutation(snapshot, body) ==
  [snapshot EXCEPT
     !.transactions = Append(@, NewTransaction(body, snapshot.nextId)),
     !.nextId       = @ + 1]

\* an update that replaces the transaction by the body instead of merging
PutMutation_Replace(snapshot, i, body) ==
  [snapshot EXCEPT !.transactions[i] =
     Assign(Assign([id |-> @.id, deleted |-> @.deleted], body), Restamp(now))]

\* the snapshot an update passes to save; i is the position find returned
PutMutation(snapshot, i, body) ==
  [snapshot EXCEPT !.transactions[i] = Assign(Assign(@, body), Restamp(now))]

\* the snapshot a soft-delete passes to save
DeleteMutation(snapshot, i) ==
  [snapshot EXCEPT !.transactions[i] = Assign([@ EXCEPT !.deleted = TRUE], Restamp(now))]

\* const values = data.transactions.map(transactionToRow)
ValuesOf(snapshot) ==
  [i \in 1..Len(snapshot.transactions) |-> transactionToRow(snapshot.transactions[i])]

\* ------------------------------------------------------------ the state
Envs == [sheetId : BOOLEAN, clientEmail : BOOLEAN, privateKey : BOOLEAN]

Sheet(h, rows) == [header |-> h, rows |-> rows]

EmptySheet == Sheet(FALSE, <<>>)

\* the sheets a run starts from: a blank one, and one a create has written
InitSheets ==
  {EmptySheet,
   Sheet(TRUE, <<transactionToRow(Assign(Assign([val |-> "a"], [id |-> 1, deleted |-> FALSE]),
                                         Stamps(1)))>>)}

\* the codec is not in use
NoCodec == [step |-> "none"]

Init ==
  /\ env \in Envs
  /\ \E sheet \in InitSheets : header = sheet.header /\ store = sheet.rows
  /\ pc = [p \in Procs |-> "idle"]
  /\ req = [p \in Procs |-> NoReq]
  /\ loaded = [p \in Procs |-> EmptySnapshot]
  /\ data = [p \in Procs |-> EmptySnapshot]
  /\ resp = [p \in Procs |-> NoResp]
  /\ calls = [p \in Procs |-> <<>>]
  /\ assigned = {}
  /\ removed = {}
  /\ before = [p \in Procs |-> EmptySheet]
  /\ raced = [p \in Procs |-> FALSE]
  /\ lastSaved = "none"
  /\ now = 1
  /\ codec = NoCodec

\* ---------------------------------------------------------------- steps
\* The handler sends its response and is done
Respond(p, r, result, snapshot) ==
  /\ pc' = [pc EXCEPT ![p] = "done"]
  /\ resp' = [resp EXCEPT ![p] = r]
  /\ loaded' = [loaded EXCEPT ![p] = result.value]
  /\ data' = [data EXCEPT ![p] = snapshot]

\* saveDataToSheets up to its first await: unavailable, it returns false at
\* once; otherwise it has encoded the rows of snapshot and issued the clear
BeginSave(p, result, snapshot) ==
  IF validateCredentials(env)
  THEN /\ pc' = [pc EXCEPT ![p] = "clear"]
       /\ resp' = [resp EXCEPT ![p] = NoResp]
       /\ loaded' = [loaded EXCEPT ![p] = result.value]
       /\ data' = [data EXCEPT ![p] = snapshot]
  ELSE Respond(p, PersistFailed, result, snapshot)

\* A handler starts: the request is taken and loadDataFromSheets is awaited
BeginRequest(p, r, ok) ==
  /\ pc[p] = "idle"
  /\ req' = [req EXCEPT ![p] = r]
  /\ calls' = [calls EXCEPT ![p] = LoadCalls(env, ok)]
  /\ UNCHANGED <<env, header, store, now, codec>>

\* GET /transactions
GetTransactions(p, ok) ==
  LET result == loadDataFromSheets(env, ok, ReadRange(store)) IN
  /\ BeginRequest(p, Request("get", 0, EmptyBody), ok)
  /\ Respond(p, IF result.threw THEN HandlerFailed ELSE Ok, result, result.value)

\* POST /transactions up to the clear of its save
PostTransaction(p, body, ok) ==
  LET result == loadDataFromSheets(env, ok, ReadRange(store)) IN
  /\ BeginRequest(p, Request("post", 0, body), ok)
  /\ result.value.nextId <= MaxId
  /\ Len(result.value.transactions) < MaxRows
  /\ IF result.threw
     THEN Respond(p, HandlerFailed, result, result.value)
     ELSE BeginSave(p, result, PostMutation(result.value, body))

\* PUT /transactions/:id up to the clear of its save
PutTransaction(p, id, body, ok) ==
  LET result == loadDataFromSheets(env, ok, ReadRange(store))
      i == FindIndex(result.value.transactions, id)
  IN /\ BeginRequest(p, Request("put", id, body), ok)
     /\ IF result.threw THEN Respond(p, HandlerFailed, result, result.value)
        ELSE IF i = 0 THEN Respond(p, NotFound, result, result.value)
        ELSE BeginSave(p, result, PutMutation(result.value, i, body))

\* DELETE /transactions/:id up to the clear of its save
DeleteTransaction(p, id, ok) ==
  LET result == loadDataFromSheets(env, ok, ReadRange(store))
      i == FindIndex(result.value.transactions, id)
  IN /\ BeginRequest(p, Request("delete", id, EmptyBody), ok)
     /\ IF result.threw THEN Respond(p, HandlerFailed, result, result.value)
        ELSE IF i = 0 THEN Respond(p, NotFound, result, result.value)
        ELSE BeginSave(p, result, DeleteMutation(result.value, i))

\* debugGoogleSheet guards on the sheet id and the client email alone; without
\* the private key the read it issues cannot authenticate
DebugSheet(p, ok) ==
  /\ pc[p] = "idle"
  /\ ok => env.privateKey
  /\ req' = [req EXCEPT ![p] = Request("debug", 0, EmptyBody)]
  /\ calls' = [calls EXCEPT ![p] =
                 IF env.sheetId /\ env.clientEmail THEN <<Call("get", ok)>> ELSE <<>>]
  /\ Respond(p, Ok, Returned(EmptySnapshot), EmptySnapshot)
  /\ UNCHANGED <<env, header, store, now, codec>>

\* the id the create in slot p gave its transaction
NewId(p) == data[p].transactions[Len(data[p].transactions)].id

\* a handler that answers with success whatever save returned
EndSave_AlwaysOk(p, saved) ==
  Respond(p, SuccessOf(req[p].kind), Returned(loaded[p]), data[p])

\* the save ends: true answers the request with success, false with 500
EndSave(p, saved) ==
  Respond(p, IF saved THEN SuccessOf(req[p].kind) ELSE PersistFailed,
          Returned(loaded[p]), data[p])

\* values.clear on Sheet1!A:K
SaveClear(p, ok) ==
  /\ pc[p] = "clear"
  /\ calls' = [calls EXCEPT ![p] = Append(@, Call("clear", ok))]
  /\ UNCHANGED <<env, req, now, codec>>
  /\ IF ok
     THEN /\ header' = FALSE
          /\ store' = <<>>
          /\ pc' = [pc EXCEPT ![p] = "header"]
          /\ UNCHANGED <<resp, loaded, data>>
     ELSE /\ UNCHANGED <<header, store>>
          /\ EndSave(p, FALSE)

\* values.update on Sheet1!A1:K1; with no rows to write the save is over
SaveHeader(p, ok) ==
  /\ pc[p] = "header"
  /\ calls' = [calls EXCEPT ![p] = Append(@, Call("header", ok))]
  /\ UNCHANGED <<env, req, store, now, codec>>
  /\ IF ok
     THEN /\ header' = TRUE
          /\ IF Len(ValuesOf(data[p])) > 0
             THEN /\ pc' = [pc EXCEPT ![p] = "data"]
                  /\ UNCHANGED <<resp, loaded, data>>
             ELSE EndSave(p, TRUE)
     ELSE /\ UNCHANGED header
          /\ EndSave(p, FALSE)

\* values.update on Sheet1!A2:K
SaveData(p, ok) ==
  /\ pc[p] = "data"
  /\ calls' = [calls EXCEPT ![p] = Append(@, Call("data", ok))]
  /\ UNCHANGED <<env, req, header, now, codec>>
  /\ store' = IF ok THEN WriteRange(store, ValuesOf(data[p])) ELSE store
  /\ EndSave(p, ok)

\* the handler has returned: its request, snapshot and response are gone
Release(p) ==
  /\ pc[p] = "done"
  /\ pc' = [pc EXCEPT ![p] = "idle"]
  /\ req' = [req EXCEPT ![p] = NoReq]
  /\ loaded' = [loaded EXCEPT ![p] = EmptySnapshot]
  /\ data' = [data EXCEPT ![p] = EmptySnapshot]
  /\ resp' = [resp EXCEPT ![p] = NoResp]
  /\ calls' = [calls EXCEPT ![p] = <<>>]
  /\ UNCHANGED <<env, header, store, now, codec>>

\* time passes
Tick ==
  /\ now < MaxTime
  /\ now' = now + 1
  /\ UNCHANGED <<env, header, store, pc, req, loaded, data, resp, calls, codec>>

\* ------------------------------------------------------- specifications
\* the requests that answered r in this step
Answered(r) == {p \in Procs : pc[p] # "done" /\ pc'[p] = "done" /\ resp'[p] = r}

\* the requests that started in this step
Started == {p \in Procs : pc[p] = "idle" /\ pc'[p] # "idle"}

\* the sheet each request in flight started from
BeforeOf(p) ==
  IF p \in Started THEN Sheet(header, store)
  ELSE IF pc'[p] = "idle" THEN EmptySheet ELSE before[p]

\* a step of a sequential run: the history keeps the sheet the request
\* started from
Observed(A) ==
  /\ A
  /\ before' = [p \in Procs |-> BeforeOf(p)]
  /\ UNCHANGED <<assigned, removed, raced, lastSaved>>

\* a step of a sequential run whose history also keeps the ids that creates
\* gave out and the ids that were soft-deleted
Tracked(A) ==
  /\ A
  /\ assigned' = assigned \cup {NewId(p) : p \in Answered(Created)}
  /\ removed' = removed \cup
                  {req[p].id : p \in {q \in Answered(Ok) : req[q].kind = "delete"}}
  /\ before' = [p \in Procs |-> BeforeOf(p)]
  /\ UNCHANGED <<raced, lastSaved>>

\* a step of a concurrent run: the history tells which requests raced and
\* which save returned true last
Raced(A) ==
  /\ A
  /\ raced' = [p \in Procs |->
                 IF p \in Started THEN \E q \in Procs \ {p} : pc[q] = "clear"
                 ELSE IF pc[p] = "clear" /\ Started # {} THEN TRUE
                 ELSE IF pc'[p] = "idle" THEN FALSE ELSE raced[p]]
  /\ lastSaved' = IF \E p \in Procs : p \in Answered(SuccessOf(req[p].kind))
                  THEN CHOOSE p \in Procs : p \in Answered(SuccessOf(req[p].kind))
                  ELSE lastSaved
  /\ UNCHANGED <<assigned, removed, before>>

\* Sequential execution: one handler at a time, in slot w1; any remote call
\* may fail
Next ==
  \E ok \in BOOLEAN :
    \/ Observed(GetTransactions("w1", ok))
    \/ Observed(\E body \in Bodies : PostTransaction("w1", body, ok))
    \/ Observed(\E id \in Ids, body \in Bodies : PutTransaction("w1", id, body, ok))
    \/ Observed(\E id \in Ids : DeleteTransaction("w1", id, ok))
    \/ Observed(DebugSheet("w1", ok))
    \/ Observed(SaveClear("w1", ok))
    \/ Observed(SaveHeader("w1", ok))
    \/ Observed(SaveData("w1", ok))
    \/ Observed(Release("w1"))

Spec == Init /\ [][Next]_vars

\* the bodies of clients that supply the field val at most
PlainBodies == {EmptyBody} \cup {[val |-> v] : v \in Vals}

\* Sequential execution with a remote that never fails and clients that
\* supply the field val at most
ReliableNext ==
  \/ Tracked(GetTransactions("w1", TRUE))
  \/ Tracked(\E body \in PlainBodies : PostTransaction("w1", body, TRUE))
  \/ Tracked(\E id \in Ids, body \in PlainBodies : PutTransaction("w1", id, body, TRUE))
  \/ Tracked(\E id \in Ids : DeleteTransaction("w1", id, TRUE))
  \/ Tracked(DebugSheet("w1", TRUE))
  \/ Tracked(SaveClear("w1", TRUE))
  \/ Tracked(SaveHeader("w1", TRUE))
  \/ Tracked(SaveData("w1", TRUE))
  \/ Tracked(Release("w1"))

ReliableSpec == Init /\ [][ReliableNext]_vars

\* Two mutation requests interleave at their remote calls; the remote never
\* fails, a create supplies no field and an update supplies val
ConcNext ==
  \E p \in Procs :
    \/ Raced(PostTransaction(p, EmptyBody, TRUE))
    \/ Raced(\E id \in Ids, v \in Vals : PutTransaction(p, id, [val |-> v], TRUE))
    \/ Raced(\E id \in Ids : DeleteTransaction(p, id, TRUE))
    \/ Raced(SaveClear(p, TRUE))
    \/ Raced(SaveHeader(p, TRUE))
    \/ Raced(SaveData(p, TRUE))
    \/ Raced(Release(p))

ConcSpec == Init /\ [][ConcNext]_vars

\* the bodies of clients that supply val or a creation stamp of their own
StampBodies == PlainBodies \cup {[createdAt |-> "X"], [createdTimestamp |-> MaxTime + 1]}

\* Sequential execution with a remote that never fails, while time passes
StampNext ==
  \/ Observed(GetTransactions("w1", TRUE))
  \/ Observed(\E body \in StampBodies : PostTransaction("w1", body, TRUE))
  \/ Observed(\E id \in Ids, body \in StampBodies : PutTransaction("w1", id, body, TRUE))
  \/ Observed(\E id \in Ids : DeleteTransaction("w1", id, TRUE))
  \/ Observed(SaveClear("w1", TRUE))
  \/ Observed(SaveHeader("w1", TRUE))
  \/ Observed(SaveData("w1", TRUE))
  \/ Observed(Release("w1"))
  \/ Observed(Tick)

StampSpec == Init /\ [][StampNext]_vars

\* the rows a sheet can hold when a load starts: with or without an id, live
\* or soft-deleted
LoadRows ==
  {[id |-> i, val |-> "a", amount |-> NoNumber, deleted |-> d,
    createdAt |-> "T1", updatedAt |-> "T1",
    createdTimestamp |-> 1, updatedTimestamp |-> 1] :
     i \in {NoNumber} \cup Ids, d \in BOOLEAN}

LoadSheets == UNION {[1..n -> LoadRows] : n \in 0..MaxRows}

LoadInit ==
  /\ env \in Envs
  /\ header = TRUE
  /\ store \in LoadSheets
  /\ pc = [p \in Procs |-> "idle"]
  /\ req = [p \in Procs |-> NoReq]
  /\ loaded = [p \in Procs |-> EmptySnapshot]
  /\ data = [p \in Procs |-> EmptySnapshot]
  /\ resp = [p \in Procs |-> NoResp]
  /\ calls = [p \in Procs |-> <<>>]
  /\ assigned = {}
  /\ removed = {}
  /\ before = [p \in Procs |-> EmptySheet]
  /\ raced = [p \in Procs |-> FALSE]
  /\ lastSaved = "none"
  /\ now = 1
  /\ codec = NoCodec

\* Loads of any sheet: GET /transactions over every content of the store
LoadNext ==
  \/ Observed(\E ok \in BOOLEAN : GetTransactions("w1", ok))
  \/ Observed(Release("w1"))

LoadSpec == LoadInit /\ [][LoadNext]_vars

\* ------------------------------------------------------ the codec alone
\* the columns of Sheet1!A:K the model keeps, in their order
Columns ==
  <<"id", "val", "amount", "deleted", "createdAt", "updatedAt",
    "createdTimestamp", "updatedTimestamp">>

\* texts of a first cell: empty, 2, 12, 2a, a2, 1.9
IdCells ==
  {<<>>, <<"2">>, <<"1", "2">>, <<"2", "a">>, <<"a", "2">>, <<"1", ".", "9">>}

\* texts of an amount cell: empty, 0, 12.5, 12.50, x
AmountCells ==
  {<<>>, <<"0">>, <<"1", "2", ".", "5">>, <<"1", "2", ".", "5", "0">>, <<"x">>}

DeletedCells == {"TRUE", "FALSE", "", "true"}

\* texts of a time stamp cell: empty, 0, 1, x
StampCells == {<<>>, <<"0">>, <<"1">>, <<"x">>}

\* the rows values.get can return: every cell a text, the row as long as its
\* last cell that is not empty, or shorter
FullRows ==
  {[id |-> i, val |-> "a", amount |-> a, deleted |-> d,
    createdAt |-> "T1", updatedAt |-> "T1",
    createdTimestamp |-> c, updatedTimestamp |-> <<"1">>] :
     i \in IdCells, a \in AmountCells, d \in DeletedCells, c \in StampCells}

\* the first n cells of a row
Prefix(row, n) == [k \in {Columns[j] : j \in 1..n} |-> row[k]]

CodecRows == {Prefix(row, n) : row \in FullRows, n \in 0..Len(Columns)}

CodecInit ==
  /\ env = [sheetId |-> TRUE, clientEmail |-> TRUE, privateKey |-> TRUE]
  /\ header = FALSE
  /\ store = <<>>
  /\ pc = [p \in Procs |-> "idle"]
  /\ req = [p \in Procs |-> NoReq]
  /\ loaded = [p \in Procs |-> EmptySnapshot]
  /\ data = [p \in Procs |-> EmptySnapshot]
  /\ resp = [p \in Procs |-> NoResp]
  /\ calls = [p \in Procs |-> <<>>]
  /\ assigned = {}
  /\ removed = {}
  /\ before = [p \in Procs |-> EmptySheet]
  /\ raced = [p \in Procs |-> FALSE]
  /\ lastSaved = "none"
  /\ now = 1
  /\ \E row \in CodecRows, index \in 0..MaxRows :
       codec = [step |-> "row", row |-> row, index |-> index]

\* rowToTransaction(row, index)
Decode ==
  /\ codec.step = "row"
  /\ codec' = [step |-> "decoded", row |-> codec.row, index |-> codec.index,
               transaction |-> rowToTransaction(codec.row, codec.index)]
  /\ UNCHANGED <<env, header, store, pc, req, loaded, data, resp, calls,
                 assigned, removed, before, raced, lastSaved, now>>

\* transactionToRow(transaction)
Encode ==
  /\ codec.step = "decoded"
  /\ codec' = [step |-> "encoded", row |-> codec.row, index |-> codec.index,
               transaction |-> codec.transaction,
               written |-> transactionToRow(codec.transaction)]
  /\ UNCHANGED <<env, header, store, pc, req, loaded, data, resp, calls,
                 assigned, removed, before, raced, lastSaved, now>>

\* The codec applied to one row at one position, at any instant
CodecNext ==
  \/ Decode
  \/ Encode
  \/ Observed(Tick)

CodecSpec == CodecInit /\ [][CodecNext]_vars

\* ================================================================ claims
Live(rows) == SelectSeq(rows, LAMBDA r : ~r.deleted)

Mutations == {"post", "put", "delete"}

Succeeded(p) == pc[p] = "done" /\ req[p].kind \in Mutations /\ resp[p] = SuccessOf(req[p].kind)

\* C1: no two non-deleted rows of the store, and no two transactions
\* returned by a load, carry the same id.
C1_UniqueIds ==
  /\ Distinct(IdsOf(Live(store)))
  /\ \A p \in Procs : Distinct(IdsOf(loaded[p].transactions))

\* C2: when two mutation requests both load before either one saves, then
\* once both saves have returned true the store holds exactly the rows of the
\* snapshot of the writer whose save returned last.
C2_LastWriterWins ==
  \A p, q \in Procs :
    (p # q /\ raced[p] /\ raced[q] /\ Succeeded(p) /\ Succeeded(q) /\ lastSaved = q)
      => store = ValuesOf(data[q])

\* C3: a create never gives its transaction an id that an earlier create
\* answered with.
C3_NoIdReuse ==
  \A p \in Procs :
    (req[p].kind = "post" /\ pc[p] \in {"clear", "header", "data"})
      => NewId(p) \notin assigned

\* C4: when save returns true the sheet holds the header and exactly the
\* encoded rows of the snapshot; when it returns false the rows of the sheet
\* are those it held before the call.
C4_PersistedOrDiscarded ==
  \A p \in Procs :
    (pc[p] = "done" /\ req[p].kind \in Mutations)
      => /\ resp[p] = SuccessOf(req[p].kind)
              => (header /\ store = ValuesOf(data[p]))
         /\ resp[p] = PersistFailed => store = before[p].rows

\* C5: no load made after a soft-delete of id X answered 200 returns a
\* transaction whose id is X.
C5_RemovedStaysInvisible ==
  [][\A p \in Procs :
       (pc[p] = "idle" /\ pc'[p] # "idle")
         => \A i \in 1..Len(loaded'[p].transactions) :
              loaded'[p].transactions[i].id \notin removed]_vars

\* C6: in sequential execution, after a save of a create, update or
\* soft-delete returned true, the sheet holds no row that was soft-deleted when
\* the request loaded: it holds as many rows as were live then (one more after
\* a create), and its only soft-deleted row, if any, is the one the request
\* itself marked.  Hence the sheet never holds more than one soft-deleted row.
C6_DeletedRowsDropped ==
  LET dels == {i \in 1..Len(store) : store[i].deleted} IN
  /\ Cardinality(dels) <= 1
  /\ \A p \in Procs :
       Succeeded(p) =>
         LET ts == loaded[p].transactions IN
         /\ \A i \in dels : /\ req[p].kind \in {"put", "delete"}
                            /\ i <= Len(ts)
                            /\ ts[i].id = req[p].id
                            /\ ~ts[i].deleted
         /\ calls[p][1].ok =>
              Len(store) = Len(Live(before[p].rows))
                             + (IF req[p].kind = "post" THEN 1 ELSE 0)

\* a request answered with success although the sheet held a soft-deleted row
\* when it loaded
C6_Witness ==
  \E p \in Procs :
    /\ Succeeded(p)
    /\ calls[p][1].ok
    /\ \E i \in 1..Len(before[p].rows) : before[p].rows[i].deleted

\* C7: the transaction a create builds has the nextId its own load returned
\* and deleted = false, whatever the body supplies; nextId is then one more
\* and the transaction is the last of the snapshot passed to save, after the
\* loaded ones.
C7_CreateAssignsNextId ==
  \A p \in Procs :
    (req[p].kind = "post" /\ pc[p] # "idle") =>
      LET ts == data[p].transactions IN
      /\ Len(ts) = Len(loaded[p].transactions) + 1
      /\ SubSeq(ts, 1, Len(ts) - 1) = loaded[p].transactions
      /\ ts[Len(ts)].id = loaded[p].nextId
      /\ ts[Len(ts)].deleted = FALSE
      /\ data[p].nextId = loaded[p].nextId + 1

\* a create whose save is under way and whose body supplied another id
C7_Witness ==
  \E p \in Procs :
    /\ req[p].kind = "post"
    /\ pc[p] \in {"clear", "header", "data"}
    /\ "id" \in DOMAIN req[p].body
    /\ req[p].body.id # loaded[p].nextId
    /\ Len(loaded[p].transactions) > 0

\* C8: an update or soft-delete whose id matches no transaction of the
\* loaded snapshot answers not-found, issues no clear, header or data call and
\* leaves the sheet as it was.
C8_NotFoundWritesNothing ==
  \A p \in Procs :
    ( /\ req[p].kind \in {"put", "delete"}
      /\ pc[p] # "idle"
      /\ ~ \E i \in 1..Len(loaded[p].transactions) :
             loaded[p].transactions[i].id = req[p].id )
    => /\ pc[p] = "done"
       /\ resp[p] = NotFound
       /\ \A k \in 1..Len(calls[p]) : calls[p][k].op = "get"
       /\ Sheet(header, store) = before[p]

\* an update answered not-found although the sheet holds rows
C8_Witness ==
  \E p \in Procs :
    /\ req[p].kind = "put"
    /\ resp[p] = NotFound
    /\ Len(loaded[p].transactions) > 0

\* C9: load never raises: unavailable or with a failed read it returns the
\* empty snapshot; save never raises: a failed clear, header or data call
\* makes it return false.  No handler ever answers from its catch clause.
C9_NeverRaises ==
  \A p \in Procs :
    pc[p] # "idle" =>
      /\ resp[p] # HandlerFailed
      /\ (req[p].kind # "debug" /\ (calls[p] = <<>> \/ ~calls[p][1].ok))
           => loaded[p] = EmptySnapshot
      /\ (pc[p] = "done" /\ \E k \in 1..Len(calls[p]) : ~calls[p][k].ok /\ k > 1)
           => resp[p] = PersistFailed

\* a create whose read failed while the sheet held rows
C9_Witness ==
  \E p \in Procs :
    /\ req[p].kind = "post"
    /\ pc[p] # "idle"
    /\ calls[p] # <<>>
    /\ ~calls[p][1].ok
    /\ before[p].rows # <<>>

\* C10: with one of the three configuration values absent no request issues
\* a remote call.
C10_NoCallWhenUnconfigured ==
  ~(env.sheetId /\ env.clientEmail /\ env.privateKey)
    => \A p \in Procs : calls[p] = <<>>

\* the update or soft-delete in slot p found its transaction and passed a
\* mutated snapshot to save
Mutated(p) ==
  /\ req[p].kind \in {"put", "delete"}
  /\ pc[p] # "idle"
  /\ resp[p] # NotFound
  /\ FindIndex(loaded[p].transactions, req[p].id) # 0

\* C11: id is immutable after creation: in the snapshot an update or
\* soft-delete passes to save, every transaction has the id it was loaded with,
\* whatever the body supplies.
C11_IdImmutable ==
  \A p \in Procs :
    Mutated(p) =>
      /\ Len(data[p].transactions) = Len(loaded[p].transactions)
      /\ \A i \in 1..Len(loaded[p].transactions) :
            data[p].transactions[i].id = loaded[p].transactions[i].id

\* C12: createdAt and createdTimestamp are set once: for every transaction
\* whose row stores both, the row an update or soft-delete passes to save
\* carries the createdAt and the createdTimestamp the row had when the request
\* loaded it, whatever the body supplies.
C12_CreationStampsKept ==
  \A p \in Procs :
    Mutated(p) =>
      LET rows == Live(before[p].rows) IN
      /\ Len(ValuesOf(data[p])) = Len(rows)
      /\ \A i \in 1..Len(rows) :
            (rows[i].createdAt # "" /\ rows[i].createdTimestamp # NoNumber) =>
              /\ ValuesOf(data[p])[i].createdAt = rows[i].createdAt
              /\ ValuesOf(data[p])[i].createdTimestamp = rows[i].createdTimestamp

\* C13: a create, update or soft-delete whose load failed on the remote read
\* leaves the rows that were in the sheet before the request where they were.
C13_FailedLoadKeepsRows ==
  \A p \in Procs :
    ( /\ req[p].kind \in Mutations
      /\ pc[p] # "idle"
      /\ calls[p] # <<>>
      /\ ~calls[p][1].ok )
    => /\ Len(store) >= Len(before[p].rows)
       /\ SubSeq(store, 1, Len(before[p].rows)) = before[p].rows

\* the remote calls of a save, in the order the code issues them
SaveOrder == <<"clear", "header", "data">>

\* C14: a save issues clear, header update and data update in this order,
\* and whenever no save is in progress, the save that returned last having
\* returned true, the sheet holds the header and exactly the rows of one
\* snapshot that a request passed to save, not a mixture of two.
C14_NoPartialUpdate ==
  /\ \A p \in Procs :
        \A k \in 2..Len(calls[p]) :
          k - 1 <= Len(SaveOrder) /\ calls[p][k].op = SaveOrder[k - 1]
  /\ ( /\ \A p \in Procs : pc[p] \in {"idle", "done"}
       /\ \E p \in Procs : lastSaved = p /\ Succeeded(p) )
     => /\ header
        /\ \E q \in Procs : Succeeded(q) /\ store = ValuesOf(data[q])

\* the load in slot p read the sheet successfully and the handler is done
Loaded(p) ==
  /\ req[p].kind = "get"
  /\ pc[p] = "done"
  /\ calls[p] # <<>>
  /\ calls[p][1].ok

\* the positions of the rows that are not soft-deleted, in row order
LivePositions(rows) ==
  SelectSeq([i \in 1..Len(rows) |-> i], LAMBDA i : ~rows[i].deleted)

\* the id the row at position i stands for: its id cell, or its position when
\* the cell is empty
IdAt(rows, i) == IF rows[i].id = NoNumber THEN i ELSE rows[i].id

\* C15: a successful load returns exactly the rows whose deleted flag is
\* false, decoded, in row order; it issues no call but the read and the sheet,
\* soft-deleted rows included, is as it was.
C15_LoadFiltersDeleted ==
  \A p \in Procs :
    Loaded(p) =>
      LET ts  == loaded[p].transactions
          pos == LivePositions(store)
      IN /\ Len(ts) = Len(pos)
         /\ \A k \in 1..Len(pos) :
               /\ ts[k].id = IdAt(store, pos[k])
               /\ ts[k].val = store[pos[k]].val
               /\ ts[k].createdAt = store[pos[k]].createdAt
               /\ ts[k].deleted = FALSE
         /\ calls[p] = <<Call("get", TRUE)>>
         /\ Sheet(header, store) = before[p]

\* a load of a sheet that holds a live row below a soft-deleted one
C15_Witness ==
  \E p \in Procs :
    /\ Loaded(p)
    /\ \E i, j \in 1..Len(store) : i < j /\ store[i].deleted /\ ~store[j].deleted

AllDigits(c) == c # <<>> /\ \A k \in 1..Len(c) : IsDigit(c[k])

\* a text that is a decimal numeral: digits, and maybe a point and more digits
IsNumeral(c) ==
  \/ AllDigits(c)
  \/ \E k \in 2..(Len(c) - 1) :
       /\ c[k] = "."
       /\ AllDigits(SubSeq(c, 1, k - 1))
       /\ AllDigits(SubSeq(c, k + 1, Len(c)))

\* the integer part of a numeral
IntegerOf(c) ==
  IF AllDigits(c) THEN ValueOf(c)
  ELSE ValueOf(SubSeq(c, 1, (CHOOSE k \in 1..Len(c) : c[k] = ".") - 1))

\* C17: the id that decode gives a row at position i is the integer of the
\* first cell when that cell is present, not empty and numeric, whatever i is,
\* and i + 1 when the first cell is missing, empty or not numeric.
C17_DecodedId ==
  codec.step \in {"decoded", "encoded"} =>
    IF "id" \in DOMAIN codec.row /\ IsNumeral(codec.row.id)
    THEN codec.transaction.id = IntegerOf(codec.row.id)
    ELSE codec.transaction.id = codec.index + 1

\* a row of values.get with every cell filled as the code writes them: a
\* whole id, a numeral amount, TRUE or FALSE, two time texts, two whole stamps
WellFormed(row) ==
  /\ DOMAIN row = {Columns[j] : j \in 1..Len(Columns)}
  /\ AllDigits(row.id)
  /\ IsNumeral(row.amount)
  /\ row.deleted \in {"TRUE", "FALSE"}
  /\ row.createdAt # ""
  /\ row.updatedAt # ""
  /\ AllDigits(row.createdTimestamp)
  /\ AllDigits(row.updatedTimestamp)

\* C18: for a well-formed row, at every position, the row that encode makes
\* of the decoded transaction reads back cell for cell as the row did.
C18_RoundTrip ==
  (codec.step = "encoded" /\ WellFormed(codec.row))
    => FormattedRow(codec.written) = codec.row

\* the fields an update stamps itself
Restamped == {"updatedAt", "updatedTimestamp"}

\* C19: the snapshot an update of id X passes to save differs from the
\* loaded one in one transaction with id X only, and there only in the fields
\* the body supplies and in updatedAt and updatedTimestamp: the fields not
\* supplied, the other transactions, their order and number, and nextId are as
\* loaded.
C19_UpdateFrame ==
  \A p \in Procs :
    (req[p].kind = "put" /\ pc[p] # "idle" /\ resp[p] # NotFound) =>
      LET old  == loaded[p].transactions
          new  == data[p].transactions
          body == req[p].body
      IN /\ Len(new) = Len(old)
         /\ data[p].nextId = loaded[p].nextId
         /\ \E i \in 1..Len(old) :
              /\ old[i].id = req[p].id
              /\ \A j \in 1..Len(old) : j # i => new[j] = old[j]
              /\ DOMAIN new[i] = DOMAIN old[i] \cup DOMAIN body
              /\ \A k \in DOMAIN old[i] \ (DOMAIN body \cup Restamped) :
                    new[i][k] = old[i][k]
              /\ \A k \in DOMAIN body \ Restamped : new[i][k] = body[k]

\* an update of the second of two transactions whose body supplies a new val
C19_Witness ==
  \E p \in Procs :
    /\ req[p].kind = "put"
    /\ pc[p] \in {"clear", "header", "data", "done"}
    /\ resp[p] # NotFound
    /\ Len(loaded[p].transactions) = 2
    /\ loaded[p].transactions[2].id = req[p].id
    /\ loaded[p].transactions[1].id # req[p].id
    /\ "val" \in DOMAIN req[p].body
    /\ loaded[p].transactions[2].val # req[p].body.val

\* the remote calls the request in slot p issued for its save
SaveCalls(p) == SelectSeq(calls[p], LAMBDA c : c.op # "get")

\* C20: a create, update or soft-delete loads once and saves at most once:
\* it issues one read at most, then clear, header update and data update at
\* most once each and in this order, none of them after a failed one and none
\* at all when it answers not-found; while its save is under way a further
\* step is possible, and it answers with success only after a clear, a header
\* update and a data update that all succeeded.
C20_OneLoadOneSave ==
  \A p \in Procs :
    (req[p].kind \in Mutations /\ pc[p] # "idle") =>
      LET save == SaveCalls(p) IN
      /\ calls[p] = LoadCalls(env, TRUE) \o save \/ calls[p] = LoadCalls(env, FALSE) \o save
      /\ Len(save) <= Len(SaveOrder)
      /\ \A k \in 1..Len(save) :
            /\ save[k].op = SaveOrder[k]
            /\ ~save[k].ok => (k = Len(save) /\ pc[p] = "done")
      /\ resp[p] = NotFound => save = <<>>
      /\ pc[p] \in {"clear", "header", "data"} =>
            (resp[p] = NoResp /\ Len(save) < Len(SaveOrder) /\ ENABLED Next)
      /\ pc[p] = "done" => resp[p] # NoResp
      /\ resp[p] = SuccessOf(req[p].kind) =>
            (Len(save) = Len(SaveOrder) /\ \A k \in 1..Len(save) : save[k].ok)

\* a request answered with a persistence failure after its header update
\* failed: the save stopped there
C20_Witness ==
  \E p \in Procs :
    /\ req[p].kind \in Mutations
    /\ pc[p] = "done"
    /\ resp[p] = PersistFailed
    /\ Len(SaveCalls(p)) = 2
    /\ ~SaveCalls(p)[2].ok

====
